---- MODULE Spec2Model ----
(***************************************************************************)
(* Model of repo_documenter: the per-repository documentation pipeline     *)
(* (create_documentation: directory structure, repository analysis,        *)
(* prompt, generation, section extraction and writing) and the             *)
(* organization loop that drives it.                                       *)
(*                                                                         *)
(* A Python str is modelled as a sequence of tokens.  A token is one       *)
(* character ("#", "sp" = blank, "nl" = line feed, "x" = any other text)   *)
(* or one word that the code treats as a unit: a section title, a required *)
(* element, or a fixed phrase the code writes.  Substring tests between    *)
(* words are made on the words' lower-cased spellings (LowerOf, SubstrOf). *)
(***************************************************************************)
EXTENDS Integers, Sequences, FiniteSets, TLC

\* ------------------------------------------------------------------------
\* Bounds of the model
\* ------------------------------------------------------------------------
\* filler lines that may precede the keyword line of a section body
MaxFill == 1
\* length of the exhaustively enumerated short texts
MaxShortLen == 3
\* length of the exhaustively enumerated error descriptions
MaxErrorLen == 4
\* repositories in one organization listing
MaxRepos == 2
\* files in one repository tree
MaxFiles == 3
\* source files in one sequence given to detect_main_technology
MaxSources == 4

\* ------------------------------------------------------------------------
\* save_documentation: the section table (documentation.py 138-164)
\* ------------------------------------------------------------------------
SectionOrder == <<"getting-started", "data-models", "flows", "architecture", "faqs">>

SectionKeys == {SectionOrder[i] : i \in 1..Len(SectionOrder)}

Title ==
  [s \in SectionKeys |->
     CASE s = "getting-started" -> "Getting Started Guide"
       [] s = "data-models"     -> "Data Models Documentation"
       [] s = "flows"           -> "Flow Charts"
       [] s = "architecture"    -> "Architecture Overview"
       [] s = "faqs"            -> "FAQs"]

RequiredElements ==
  [s \in SectionKeys |->
     CASE s = "getting-started" -> <<"Prerequisites", "Installation", "Configuration", "Usage">>
       [] s = "data-models"     -> <<"Models", "Schema", "Validation">>
       [] s = "flows"           -> <<"MermaidFence">>
       [] s = "architecture"    -> <<"Components", "Design", "Integration">>
       [] s = "faqs"            -> <<"Question", "Answer">>]

\* ("MermaidFence" is the word for the fenced-diagram opening marker, three
\* backquotes followed by mermaid.)
\* The titles named in the lookahead of each section's pattern.  The pattern
\* of "faqs" has no title there: its lookahead is (?=#+|$).
LookaheadTitles ==
  [s \in SectionKeys |->
     CASE s = "getting-started" -> {"Data Models Documentation", "Flow Charts",
                                    "Architecture Overview", "FAQs"}
       [] s = "data-models"     -> {"Flow Charts", "Architecture Overview", "FAQs"}
       [] s = "flows"           -> {"Architecture Overview", "FAQs"}
       [] s = "architecture"    -> {"FAQs"}
       [] s = "faqs"            -> {}]

\* ------------------------------------------------------------------------
\* Words and their lower-cased spellings (str.lower, the `in` operator)
\* ------------------------------------------------------------------------
LowerOf(tok) ==
  CASE tok = "Prerequisites" -> "prerequisites"
    [] tok = "Installation"  -> "installation"
    [] tok = "INSTALLATION"  -> "installation"
    [] tok = "Configuration" -> "configuration"
    [] tok = "Usage"         -> "usage"
    [] tok = "Models"        -> "models"
    [] tok = "Schema"        -> "schema"
    [] tok = "Validation"    -> "validation"
    [] tok = "Components"    -> "components"
    [] tok = "Design"        -> "design"
    [] tok = "Integration"   -> "integration"
    [] tok = "Question"      -> "question"
    [] tok = "QUESTION"      -> "question"
    [] tok = "Answer"        -> "answer"
    [] tok = "MermaidFence"  -> "mermaidfence"
    [] tok = "Getting Started Guide"     -> "getting started guide"
    [] tok = "Data Models Documentation" -> "data models documentation"
    [] tok = "Flow Charts"               -> "flow charts"
    [] tok = "Architecture Overview"     -> "architecture overview"
    [] tok = "FAQs"                      -> "faqs"
    [] tok = "faqs"                      -> "faqs"
    [] tok = "README"                    -> "readme"
    [] tok = "Tests"                     -> "tests"
    [] tok = "Dockerfile"                -> "dockerfile"
    [] OTHER -> tok

\* a is a substring of b, for lower-cased words
SubstrOf(a, b) ==
  \/ a = b
  \/ a = "models" /\ b = "data models documentation"
  \/ a = "test" /\ b = "tests"
  \/ a = "docs" /\ b = "olddocs"
  \/ a = "config" /\ b = ".config"
  \/ a = "model" /\ b \in {"models", "data-models", "data models documentation"}

\* element.lower() in text.lower()
ContainsElement(element, text) ==
  \E k \in 1..Len(text) : SubstrOf(LowerOf(element), LowerOf(text[k]))

\* ------------------------------------------------------------------------
\* The regular expressions of save_documentation, searched with
\* re.DOTALL | re.MULTILINE
\* ------------------------------------------------------------------------
\* \s
IsSpace(c) == c \in {"sp", "nl"}

\* the position after the longest run of '#' that starts at p  (#+, #*)
RECURSIVE SkipHashes(_, _)
SkipHashes(text, p) ==
  IF p <= Len(text) /\ text[p] = "#" THEN SkipHashes(text, p + 1) ELSE p

\* the position after the longest run of white space that starts at p  (\s*)
RECURSIVE SkipSpace(_, _)
SkipSpace(text, p) ==
  IF p <= Len(text) /\ IsSpace(text[p]) THEN SkipSpace(text, p + 1) ELSE p

\* the last line feed in text[from..to-1], 0 when there is none: where the
\* greedy \s* gives back characters so that the following \n can match
RECURSIVE LastNewline(_, _, _)
LastNewline(text, from, to) ==
  IF to <= from THEN 0
  ELSE IF text[to - 1] = "nl" THEN to - 1
  ELSE LastNewline(text, from, to - 1)

\* #+\s*(?:titles)\s*\n  matched at position p: the position after the match,
\* 0 when the expression does not match at p
HeadingAt(text, p, titles) ==
  IF p > Len(text) \/ text[p] # "#" THEN 0
  ELSE LET t == SkipSpace(text, SkipHashes(text, p))
       IN  IF t > Len(text) \/ text[t] \notin titles THEN 0
           ELSE LET nl == LastNewline(text, t + 1, SkipSpace(text, t + 1))
                IN  IF nl = 0 THEN 0 ELSE nl + 1

\* $ under re.MULTILINE: at the end of the text and before every line feed
AtDollar(text, q) == q = Len(text) + 1 \/ text[q] = "nl"

\* (variant of LookaheadAt: group 1 runs to the heading of the next section
\* only, or to the end of the text)
LookaheadNextSectionOnly(text, s, q) ==
  \/ IF s = "faqs"
       THEN q <= Len(text) /\ text[q] = "#"
       ELSE HeadingAt(text, q, {Title[j] : j \in {k \in SectionKeys :
              \E i \in 1..(Len(SectionOrder) - 1) :
                 SectionOrder[i] = s /\ SectionOrder[i + 1] = k}}) # 0
  \/ q = Len(text) + 1

\* the lookahead that ends group 1 of section s's pattern, tried at q
LookaheadAt(text, s, q) ==
  \/ IF s = "faqs"
       THEN q <= Len(text) /\ text[q] = "#"
       ELSE HeadingAt(text, q, LookaheadTitles[s]) # 0
  \/ AtDollar(text, q)

\* (.*?) is lazy: group 1 ends at the first position where the lookahead holds
RECURSIVE GroupEnd(_, _, _)
GroupEnd(text, s, q) ==
  IF LookaheadAt(text, s, q) THEN q ELSE GroupEnd(text, s, q + 1)

\* re.search: the leftmost position from p on where section s's heading
\* matches, 0 when there is none
RECURSIVE SearchFrom(_, _, _)
SearchFrom(text, s, p) ==
  IF p > Len(text) THEN 0
  ELSE IF HeadingAt(text, p, {Title[s]}) # 0 THEN p
  ELSE SearchFrom(text, s, p + 1)

\* re.search(info["pattern"], documentation, re.DOTALL | re.MULTILINE):
\* the match object as a record; ok = FALSE stands for None
SearchSection(text, s) ==
  LET p == SearchFrom(text, s, 1)
  IN  IF p = 0 THEN [ok |-> FALSE, start |-> 0, from |-> 0, to |-> 0, group1 |-> <<>>]
      ELSE LET b == HeadingAt(text, p, {Title[s]})
               e == GroupEnd(text, s, b)
           IN  [ok |-> TRUE, start |-> p, from |-> b, to |-> e,
                group1 |-> SubSeq(text, b, e - 1)]

\* ------------------------------------------------------------------------
\* save_documentation: what is written to each file
\* ------------------------------------------------------------------------
\* str.strip(): leading and trailing white space removed
RECURSIVE StripLeft(_)
StripLeft(text) ==
  IF text # <<>> /\ IsSpace(Head(text)) THEN StripLeft(Tail(text)) ELSE text

RECURSIVE StripRight(_)
StripRight(text) ==
  IF text # <<>> /\ IsSpace(text[Len(text)])
    THEN StripRight(SubSeq(text, 1, Len(text) - 1))
    ELSE text

Strip(text) == StripRight(StripLeft(text))

\* section_content.startswith("# ")
StartsWithH1(text) == Len(text) >= 2 /\ text[1] = "#" /\ text[2] = "sp"

\* f"# {info['title']}\n\n"
TitleLine(s) == <<"#", "sp", Title[s], "nl", "nl">>

\* (variant of Accepted: the required elements are looked for as spelled,
\* without lower())
AcceptedCaseSensitive(text, s) ==
  LET m == SearchSection(text, s)
  IN  /\ m.ok
      /\ \E i \in 1..Len(RequiredElements[s]), k \in 1..Len(m.group1) :
            RequiredElements[s][i] = m.group1[k]

\* match and any(element.lower() in match.group(1).lower() for element in ...)
Accepted(text, s) ==
  LET m == SearchSection(text, s)
  IN  /\ m.ok
      /\ \E i \in 1..Len(RequiredElements[s]) :
            ContainsElement(RequiredElements[s][i], m.group1)

\* the content written for an accepted section (lines 181-188)
ExtractedContent(text, s) ==
  LET section_content == Strip(SearchSection(text, s).group1)
  IN  IF StartsWithH1(section_content)
        THEN section_content
        ELSE TitleLine(s) \o section_content

\* chr(10).join(f"- {element}" for element in info["required_elements"])
RECURSIVE ElementList(_)
ElementList(elements) ==
  IF elements = <<>> THEN <<>>
  ELSE IF Len(elements) = 1 THEN <<"-", "sp", elements[1]>>
  ELSE <<"-", "sp", elements[1], "nl">> \o ElementList(Tail(elements))

\* the placeholder written for a section that is not accepted (lines 192-205)
Placeholder(s) ==
  TitleLine(s)
    \o <<"This section requires manual documentation. The following elements are expected:",
         "nl", "nl">>
    \o ElementList(RequiredElements[s])
    \o <<"nl", "nl", "Please add appropriate documentation covering these elements.",
         "nl", "nl", "For reference, this section should include: ...", "nl">>

\* what the loop of lines 175-205 writes to docs/<s>/README.md
SectionContent(text, s) ==
  IF Accepted(text, s) THEN ExtractedContent(text, s) ELSE Placeholder(s)

\* the index docs/README.md (lines 167-169)
RECURSIVE IndexLinks(_)
IndexLinks(keys) ==
  IF keys = <<>> THEN <<>>
  ELSE <<"-", "sp", "[", Title[Head(keys)], "]", "(", Head(keys), "/README.md", ")", "nl">>
         \o IndexLinks(Tail(keys))

MainReadme == <<"#", "sp", "Documentation", "nl", "nl">> \o IndexLinks(SectionOrder)

\* The files under docs/: "index" is docs/README.md and a section key s is
\* docs/<s>/README.md.  NoFile is the content of a file that does not exist.
IndexFile == "index"

DocFiles == {IndexFile} \cup SectionKeys

NoFile == <<"(no such file)">>

\* the order in which save_documentation opens the files for writing
WriteOrder == <<IndexFile>> \o SectionOrder

\* (variant of ContentFor: the index links only the sections that were
\* extracted)
RECURSIVE LinksOfAccepted(_, _)
LinksOfAccepted(text, keys) ==
  IF keys = <<>> THEN <<>>
  ELSE (IF Accepted(text, Head(keys)) THEN IndexLinks(<<Head(keys)>>) ELSE <<>>)
         \o LinksOfAccepted(text, Tail(keys))

ContentForIndexOfAccepted(text, f) ==
  IF f = IndexFile
    THEN <<"#", "sp", "Documentation", "nl", "nl">> \o LinksOfAccepted(text, SectionOrder)
    ELSE SectionContent(text, f)

ContentFor(text, f) == IF f = IndexFile THEN MainReadme ELSE SectionContent(text, f)

\* (variant of SaveReturns: True whatever happened)
SaveReturnsTrue(fault) == "True"

\* the value save_documentation returns (lines 208 and 209-211): True at the
\* end of the try block, False from the handler of any exception
SaveReturns(fault) == IF fault = 0 THEN "True" ELSE "False"

\* (variant of FilesAfterSave: the files are opened for appending)
FilesAfterSaveAppending(old, text, fault) ==
  [f \in DocFiles |->
     LET n == CHOOSE i \in 1..Len(WriteOrder) : WriteOrder[i] = f
     IN  IF fault = 0 \/ n < fault
           THEN (IF old[f] = NoFile THEN <<>> ELSE old[f]) \o ContentFor(text, f)
           ELSE old[f]]

\* The disk after save_documentation when the open() of its fault-th write
\* raises (fault = 0: none does).  The writes before it are done; the failed
\* one and the ones after it, which never start, leave their files as they
\* were.
FilesAfterSave(old, text, fault) ==
  [f \in DocFiles |->
     LET n == CHOOSE i \in 1..Len(WriteOrder) : WriteOrder[i] = f
     IN  IF fault = 0 \/ n < fault THEN ContentFor(text, f) ELSE old[f]]

\* ------------------------------------------------------------------------
\* generate_documentation (claude.py 7-45)
\* ------------------------------------------------------------------------
\* (variant of FailureDocument: the description of the error is left out)
FailureDocumentWithoutError(description) ==
  <<"#", "sp", "Documentation Generation Failed", "nl", "nl", "Error:", "sp">>

\* f"# Documentation Generation Failed\n\nError: {str(e)}"
FailureDocument(description) ==
  <<"#", "sp", "Documentation Generation Failed", "nl", "nl", "Error:", "sp">>
    \o description

\* ------------------------------------------------------------------------
\* Inputs: the texts the text-generation service may return and the
\* descriptions str(e) of the errors it may raise
\* ------------------------------------------------------------------------
\* a section heading as the model writes it: level 1, or level 2 followed by
\* an empty line
Heading(style, s) ==
  IF style = 1 THEN <<"#", "sp", Title[s], "nl">>
  ELSE <<"#", "#", "sp", Title[s], "nl", "nl">>

HeadingStyles == {1, 2}

\* n lines of other text
RECURSIVE Fill(_)
Fill(n) == IF n = 0 THEN <<>> ELSE <<"x", "nl">> \o Fill(n - 1)

\* the required element a generated body uses, in the spelling it uses
KeywordIn ==
  [s \in SectionKeys |->
     CASE s = "getting-started" -> "INSTALLATION"
       [] s = "data-models"     -> "Schema"
       [] s = "flows"           -> "MermaidFence"
       [] s = "architecture"    -> "Design"
       [] s = "faqs"            -> "Answer"]

\* section bodies: up to MaxFill lines of other text and a line with a
\* required element, or no required element under at most one line of text
Bodies(s) ==
  {Fill(n) \o <<KeywordIn[s], "nl">> : n \in 0..MaxFill} \cup {Fill(n) : n \in {0, 1}}

\* a section of the response: absent, or a heading and a body
Blocks(style, s) == {<<>>} \cup {Heading(style, s) \o b : b \in Bodies(s)}

\* the heading style of the prompt's section list (claude.py 107-165)
PromptStyle == 2

\* responses with the sections in the fixed order, each present or absent
InOrderDocs ==
  {b1 \o b2 \o b3 \o b4 \o b5 :
     b1 \in Blocks(PromptStyle, "getting-started"), b2 \in Blocks(PromptStyle, "data-models"),
     b3 \in Blocks(PromptStyle, "flows"), b4 \in Blocks(PromptStyle, "architecture"),
     b5 \in Blocks(PromptStyle, "faqs")}

ShortAlphabet == {"#", "sp", "nl", "x", "FAQs", "Question", "Data Models Documentation"}

\* every text of at most MaxShortLen tokens over ShortAlphabet
ShortTexts == UNION {[1..n -> ShortAlphabet] : n \in 0..MaxShortLen}

Responses == InOrderDocs \cup ShortTexts

ErrorAlphabet == {"#", "nl", "x", "FAQs", "Question"}

\* str(e): every text of at most MaxErrorLen tokens over ErrorAlphabet
ErrorDescriptions == UNION {[1..n -> ErrorAlphabet] : n \in 0..MaxErrorLen}

\* ------------------------------------------------------------------------
\* Inputs of a run over an organization
\* ------------------------------------------------------------------------
\* the repositories of the organization, by name
RepoNames == 1..MaxRepos

\* the name a user enters between two commas
EmptyName == 0

\* what get_repositories or gh repo list may report: the repositories, some
\* or all of them, each once, in any order
RECURSIVE ListingsOf(_)
ListingsOf(names) ==
  {<<>>} \cup UNION {{<<r>> \o l : l \in ListingsOf(names \ {r})} : r \in names}

Listings == ListingsOf(RepoNames)

\* the repositories are numbered in the order in which the user first types
\* them: which of them is called 1 makes no difference to the run
FirstTypedInOrder(input) ==
  \A k \in 1..Len(input) :
     input[k] \notin {EmptyName, 1} => \E j \in 1..(k - 1) : input[j] = input[k] - 1

\* what the user may type at the manual prompt, split at the commas: up to
\* MaxRepos names, empty or not, a name any number of times
ManualInputs ==
  {input \in UNION {[1..n -> RepoNames \cup {EmptyName}] : n \in 1..MaxRepos} :
     FirstTypedInOrder(input)}

\* the path of the organization URL after .strip('/').split('/'); split
\* never returns an empty list
OrgUrlPaths == {<<"">>, <<"acme">>, <<"orgs", "acme">>, <<"orgs">>}

\* the organizations the hosting service knows
KnownOrgs == {"acme"}

\* a response with every section, as the prompt asks for it
FullResponse ==
  Heading(PromptStyle, "getting-started") \o <<"x", "nl", KeywordIn["getting-started"], "nl">>
    \o Heading(PromptStyle, "data-models") \o <<KeywordIn["data-models"], "nl">>
    \o Heading(PromptStyle, "flows") \o <<KeywordIn["flows"], "nl">>
    \o Heading(PromptStyle, "architecture") \o <<KeywordIn["architecture"], "nl">>
    \o Heading(PromptStyle, "faqs") \o <<KeywordIn["faqs"], "nl">>

\* A run over an organization is explored with one response and one error
\* per repository, and with write faults at the index or the first section.
OrgResponses == {FullResponse}

OrgErrorDescriptions == {<<"x">>}

OrgWriteFaults == 0..2

\* ------------------------------------------------------------------------
\* File contents and the prompt: a Python str as a sequence of runs
\* ------------------------------------------------------------------------
\* A run is n times the character c; a word the code handles as a unit (a
\* path segment, a fixed phrase) is a run of one.
Run(c, n) == [c |-> c, n |-> n]

Lit(w) == <<Run(w, 1)>>

\* len(s)
RECURSIVE LenOf(_)
LenOf(s) == IF s = <<>> THEN 0 ELSE Head(s).n + LenOf(Tail(s))

\* s[:k]
RECURSIVE Take(_, _)
Take(s, k) ==
  IF s = <<>> \/ k <= 0 THEN <<>>
  ELSE IF Head(s).n <= k THEN <<Head(s)>> \o Take(Tail(s), k - Head(s).n)
  ELSE <<Run(Head(s).c, k)>>

\* (variant of Excerpt: the marker is also appended to a content of exactly
\* limit characters)
ExcerptEllipsisAtLimit(content, limit) ==
  Take(content, limit) \o (IF LenOf(content) >= limit THEN <<Run(".", 3)>> ELSE <<>>)

\* content[:limit] + ("..." if len(content) > limit else "")   (claude.py 92, 99)
Excerpt(content, limit) ==
  Take(content, limit) \o (IF LenOf(content) > limit THEN <<Run(".", 3)>> ELSE <<>>)

\* the limits of lines 92 and 99
SourceExcerptLimit == 3000

ConfigExcerptLimit == 1500

\* str(k) for a count
Digit(k) == <<"0", "1", "2", "3", "4", "5", "6", "7", "8", "9">>[k + 1]

RECURSIVE NumberText(_)
NumberText(k) ==
  IF k < 10 THEN Lit(Digit(k)) ELSE NumberText(k \div 10) \o Lit(Digit(k % 10))

\* a text given as a sequence of words, as runs
AsRuns(text) == [k \in 1..Len(text) |-> Run(text[k], 1)]

\* ------------------------------------------------------------------------
\* Paths.  A path is a sequence of words: directory names, "/" and the
\* words of the file name, whose last word is its extension when it has one
\* (main.py is <<"main", ".py">>, README is <<"README">>, .env is <<".env">>).
\* ------------------------------------------------------------------------
\* part.startswith('.')
StartsWithDot(part) ==
  part \in {"..", ".git", ".cache", ".github", ".py", ".js", ".jsx", ".ts", ".java",
            ".go", ".rb", ".php", ".cs", ".json", ".yaml", ".yml", ".env", ".config",
            ".toml", ".md", ".txt"}

\* path.endswith(pattern): no word of the model is a proper suffix of
\* another, so the path ends with the pattern iff its last word is the pattern
EndsWith(path, pattern) == path # <<>> /\ path[Len(path)] = pattern

EndsWithAny(path, patterns) == \E i \in 1..Len(patterns) : EndsWith(path, patterns[i])

\* os.path.join(root, file) relative to repo_path
RECURSIVE JoinDirs(_)
JoinDirs(dir) == IF dir = <<>> THEN <<>> ELSE <<Head(dir), "/">> \o JoinDirs(Tail(dir))

RelPath(f) == JoinDirs(f.dir) \o f.name

\* os.path.splitext(path)[1]: the last dot-word of the file name, unless the
\* name begins with it
Splitext(path) ==
  IF /\ Len(path) >= 2
     /\ StartsWithDot(path[Len(path)])
     /\ path[Len(path) - 1] # "/"
    THEN path[Len(path)]
    ELSE ""

\* (variant of ContainsLower: the path is searched as spelled, without
\* lower())
ContainsCaseSensitive(word, path) == \E k \in 1..Len(path) : SubstrOf(word, path[k])

\* word in path.lower()
ContainsLower(word, path) == \E k \in 1..Len(path) : SubstrOf(word, LowerOf(path[k]))

\* Path(root).parts of a directory of the walk: the parts of repo_path, then
\* the directories below it
RootParts(repo_path, dir) == repo_path \o dir

\* any(part.startswith('.') for part in Path(root).parts)   (line 45)
IsHidden(repo_path, dir) ==
  \E k \in 1..Len(RootParts(repo_path, dir)) : StartsWithDot(RootParts(repo_path, dir)[k])

\* ------------------------------------------------------------------------
\* analyze_repository (documentation.py 27-104)
\* ------------------------------------------------------------------------
source_patterns == <<".py", ".js", ".ts", ".java", ".go", ".rb", ".php", ".cs">>

\* (variant of config_patterns: Dockerfile is a configuration pattern too)
config_patternsWithDockerfile ==
  <<".json", ".yaml", ".yml", ".env", ".config", ".toml", "Dockerfile">>

config_patterns == <<".json", ".yaml", ".yml", ".env", ".config", ".toml">>

readme_patterns == {<<"README", ".md">>, <<"README">>, <<"readme", ".md">>}

\* (variant of Category: the configuration patterns are not tested)
CategoryWithoutConfig(f) ==
  IF EndsWithAny(RelPath(f), source_patterns) THEN "source"
  ELSE IF f.name \in readme_patterns THEN "readme"
  ELSE "none"

\* the if / elif / elif of lines 60-74
Category(f) ==
  IF EndsWithAny(RelPath(f), source_patterns) THEN "source"
  ELSE IF EndsWithAny(RelPath(f), config_patterns) THEN "config"
  ELSE IF f.name \in readme_patterns THEN "readme"
  ELSE "none"

\* the entry appended to a list
Entry(f) == [path |-> RelPath(f), content |-> f.content]

RECURSIVE Entries(_)
Entries(fs) == IF fs = <<>> THEN <<>> ELSE <<Entry(Head(fs))>> \o Entries(Tail(fs))

\* (variant of Visited: a file that cannot be read ends the walk)
RECURSIVE VisitedUntilUnreadable(_, _)
VisitedUntilUnreadable(repo_path, tree) ==
  IF tree = <<>> THEN <<>>
  ELSE IF ~Head(tree).readable THEN <<>>
  ELSE (IF IsHidden(repo_path, Head(tree).dir) THEN <<>> ELSE <<Head(tree)>>)
         \o VisitedUntilUnreadable(repo_path, Tail(tree))

\* (variant of Visited: a file whose name starts with a dot is skipped like a
\* file under a dot directory)
RECURSIVE VisitedSkippingDotFiles(_, _)
VisitedSkippingDotFiles(repo_path, tree) ==
  IF tree = <<>> THEN <<>>
  ELSE (IF \/ IsHidden(repo_path, Head(tree).dir)
           \/ ~Head(tree).readable
           \/ StartsWithDot(Head(tree).name[1])
          THEN <<>> ELSE <<Head(tree)>>)
         \o VisitedSkippingDotFiles(repo_path, Tail(tree))

\* the files the loop of lines 43-57 gets past: not under a directory the
\* walk skips, and read without UnicodeDecodeError or IOError
RECURSIVE Visited(_, _)
Visited(repo_path, tree) ==
  IF tree = <<>> THEN <<>>
  ELSE (IF IsHidden(repo_path, Head(tree).dir) \/ ~Head(tree).readable
          THEN <<>> ELSE <<Head(tree)>>)
         \o Visited(repo_path, Tail(tree))

\* one of the three lists after the walk
RECURSIVE OfCategory(_, _)
OfCategory(fs, category) ==
  IF fs = <<>> THEN <<>>
  ELSE (IF Category(Head(fs)) = category THEN <<Head(fs)>> ELSE <<>>)
         \o OfCategory(Tail(fs), category)

\* the value used when no README was found: a dict without a path
NoPath == <<"(no path)">>

NoReadme == [path |-> NoPath, content |-> Lit("No README found")]

\* (variant of SelectMainReadme: always the first README of the walk)
SelectFirstReadme(readme_files) ==
  IF readme_files # <<>> THEN readme_files[1] ELSE NoReadme

\* lines 77-83 and 102
SelectMainReadme(readme_files) ==
  IF \E i \in 1..Len(readme_files) : readme_files[i].path = <<"README", ".md">>
    THEN readme_files[CHOOSE i \in 1..Len(readme_files) :
                        /\ readme_files[i].path = <<"README", ".md">>
                        /\ \A j \in 1..(i - 1) : readme_files[j].path # <<"README", ".md">>]
  ELSE IF readme_files # <<>> THEN readme_files[1]
  ELSE NoReadme

\* ------------------------------------------------------------------------
\* detect_main_technology (documentation.py 106-132)
\* ------------------------------------------------------------------------
\* the chain of lines 112-127; "" when no branch is taken
TechOf(ext) ==
  CASE ext = ".py"             -> "Python"
    [] ext \in {".js", ".jsx"} -> "JavaScript"
    [] ext \in {".ts", ".tsx"} -> "TypeScript"
    [] ext = ".java"           -> "Java"
    [] ext = ".go"             -> "Go"
    [] ext = ".rb"             -> "Ruby"
    [] ext = ".php"            -> "PHP"
    [] ext = ".cs"             -> "C#"
    [] OTHER                   -> ""

\* tech_counts, a dict: its items in insertion order
RECURSIVE TechCounts(_, _)
TechCounts(source_files, counts) ==
  IF source_files = <<>> THEN counts
  ELSE LET tech == TechOf(Splitext(Head(source_files).path))
       IN  TechCounts(Tail(source_files),
             IF tech = "" THEN counts
             ELSE IF \E i \in 1..Len(counts) : counts[i].tech = tech
               THEN [i \in 1..Len(counts) |->
                       IF counts[i].tech = tech
                         THEN [tech |-> tech, count |-> counts[i].count + 1]
                         ELSE counts[i]]
             ELSE Append(counts, [tech |-> tech, count |-> 1]))

\* (variant of MaxItem: the last of the items with the greatest count)
RECURSIVE LastMaxItem(_, _)
LastMaxItem(items, best) ==
  IF items = <<>> THEN best
  ELSE LastMaxItem(Tail(items), IF Head(items).count >= best.count THEN Head(items) ELSE best)

\* max(items, key=lambda x: x[1]): the first of the items with the greatest
\* count
RECURSIVE MaxItem(_, _)
MaxItem(items, best) ==
  IF items = <<>> THEN best
  ELSE MaxItem(Tail(items), IF Head(items).count > best.count THEN Head(items) ELSE best)

\* lines 129-132
DetectMainTechnology(source_files) ==
  LET tech_counts == TechCounts(source_files, <<>>)
  IN  IF tech_counts = <<>> THEN "Unknown"
      ELSE MaxItem(Tail(tech_counts), Head(tech_counts)).tech

\* the dict analyze_repository returns (lines 85-104)
Analysis(repo_path, tree) ==
  LET visited      == Visited(repo_path, tree)
      source_files == Entries(OfCategory(visited, "source"))
      config_files == Entries(OfCategory(visited, "config"))
      readme_files == Entries(OfCategory(visited, "readme"))
  IN  [files        |-> source_files \o config_files \o readme_files,
       source_files |-> source_files,
       config_files |-> config_files,
       readme_files |-> readme_files,
       main_readme  |-> SelectMainReadme(readme_files),
       project_structure |->
         [total_files  |-> Len(source_files) + Len(config_files) + Len(readme_files),
          source_files |-> Len(source_files),
          config_files |-> Len(config_files),
          readme_files |-> Len(readme_files),
          has_docker   |-> \E i \in 1..Len(config_files) :
                              EndsWith(config_files[i].path, "Dockerfile"),
          has_tests    |-> \E i \in 1..Len(source_files) :
                              ContainsLower("test", source_files[i].path),
          has_docs     |-> \E i \in 1..Len(readme_files) :
                              ContainsLower("docs", readme_files[i].path),
          main_tech    |-> DetectMainTechnology(source_files)]]

\* ------------------------------------------------------------------------
\* create_documentation_prompt (claude.py 47-195)
\* ------------------------------------------------------------------------
InterestPatterns ==
  <<"main", "index", "app", "server", "config", "model", "type", "interface", "service">>

\* (variant of IsInterest: the path is searched as spelled, without lower())
IsInterestCaseSensitive(path) ==
  \E i \in 1..Len(InterestPatterns) : ContainsCaseSensitive(InterestPatterns[i], path)

\* any(pattern in file["path"].lower() for pattern in [...])   (lines 88-90)
IsInterest(path) ==
  \E i \in 1..Len(InterestPatterns) : ContainsLower(InterestPatterns[i], path)

\* "Yes" if flag else "No"
YesNo(flag) == IF flag THEN "Yes" ELSE "No"

\* chr(10).join(f"- {file['path']}" for file in files)
RECURSIVE PathList(_)
PathList(entries) ==
  IF entries = <<>> THEN <<>>
  ELSE Lit("-") \o AsRuns(Head(entries).path)
         \o (IF Len(entries) = 1 THEN <<>> ELSE Lit("nl") \o PathList(Tail(entries)))

\* f"\n### {file['path']}\n```\n" + excerpt + "\n```\n"   (lines 91-93, 98-100)
FileBlock(entry, limit) ==
  Lit("nl") \o Lit("###") \o AsRuns(entry.path) \o Lit("nl") \o Lit("Fence") \o Lit("nl")
    \o Excerpt(entry.content, limit)
    \o Lit("nl") \o Lit("Fence") \o Lit("nl")

\* the loop of lines 87-93
RECURSIVE SourceBlocks(_)
SourceBlocks(source_files) ==
  IF source_files = <<>> THEN <<>>
  ELSE (IF IsInterest(Head(source_files).path)
          THEN FileBlock(Head(source_files), SourceExcerptLimit) ELSE <<>>)
         \o SourceBlocks(Tail(source_files))

\* the loop of lines 97-100
RECURSIVE ConfigBlocks(_)
ConfigBlocks(config_files) ==
  IF config_files = <<>> THEN <<>>
  ELSE FileBlock(Head(config_files), ConfigExcerptLimit) \o ConfigBlocks(Tail(config_files))

\* the prompt, without the fixed text that follows the configuration files
\* (lines 102-195)
Prompt(repo_name, analysis) ==
  LET ps == analysis.project_structure
  IN  Lit("# Repository Documentation Task:") \o Lit(repo_name) \o Lit("nl")
        \o Lit("Main Technology:") \o Lit(ps.main_tech) \o Lit("nl")
        \o Lit("Total Files:") \o NumberText(ps.total_files) \o Lit("nl")
        \o Lit("Source Files:") \o NumberText(ps.source_files) \o Lit("nl")
        \o Lit("Configuration Files:") \o NumberText(ps.config_files) \o Lit("nl")
        \o Lit("Has Docker:") \o Lit(YesNo(ps.has_docker)) \o Lit("nl")
        \o Lit("Has Tests:") \o Lit(YesNo(ps.has_tests)) \o Lit("nl")
        \o Lit("Has Existing Docs:") \o Lit(YesNo(ps.has_docs)) \o Lit("nl")
        \o Lit("## Current README Content") \o Lit("nl")
        \o analysis.main_readme.content \o Lit("nl")
        \o Lit("### Source Files:") \o Lit("nl") \o PathList(analysis.source_files) \o Lit("nl")
        \o Lit("### Config Files:") \o Lit("nl") \o PathList(analysis.config_files) \o Lit("nl")
        \o Lit("## Key Source Files Content") \o Lit("nl")
        \o SourceBlocks(analysis.source_files)
        \o Lit("nl") \o Lit("## Configuration Files") \o Lit("nl")
        \o ConfigBlocks(analysis.config_files)
        \o Lit("nl") \o Lit("## Required Documentation Sections") \o Lit("nl")

\* ------------------------------------------------------------------------
\* Inputs of the analysis: file trees, contents, repository locations
\* ------------------------------------------------------------------------
\* the part of a text of n characters that lies in from..to, as one run
Piece(c, from, to, n) ==
  IF n >= from THEN <<Run(c, (IF n < to THEN n ELSE to) - from + 1)>> ELSE <<>>

\* a text of n characters whose characters at the two limits, before them
\* and after them differ
TextOfLength(n) ==
  Piece("a", 1, ConfigExcerptLimit - 1, n)
    \o Piece("b", ConfigExcerptLimit, ConfigExcerptLimit, n)
    \o Piece("c", ConfigExcerptLimit + 1, SourceExcerptLimit - 1, n)
    \o Piece("d", SourceExcerptLimit, SourceExcerptLimit, n)
    \o Piece("e", SourceExcerptLimit + 1, n, n)

\* the lengths of the contents explored: around the two limits of the
\* prompt, and at and above one million
ContentLengths == {0, 1499, 1500, 1501, 2999, 3000, 3001, 1000000, 1000001}

DefaultLength == 1

\* where a file of a tree may be: its directory below the repository root
\* and its name
Placed(dir, name) == [dir |-> dir, name |-> name]

Placements ==
  {Placed(<<>>, <<"main", ".py">>), Placed(<<>>, <<"util", ".js">>),
   Placed(<<>>, <<".py">>), Placed(<<>>, <<"app", ".json">>),
   Placed(<<>>, <<".env">>), Placed(<<>>, <<"README", ".md">>),
   Placed(<<>>, <<"README">>), Placed(<<>>, <<"Dockerfile">>),
   Placed(<<"Tests">>, <<"util", ".js">>),
   Placed(<<"Models">>, <<"util", ".js">>),
   Placed(<<"olddocs">>, <<"README", ".md">>),
   Placed(<<"olddocs">>, <<"readme", ".md">>),
   Placed(<<".git">>, <<"app", ".json">>),
   Placed(<<"src", ".cache">>, <<"main", ".py">>)}

\* os.walk is top-down: the files of the root come first, the files of one
\* directory follow each other, and no file is met twice
IsTraversal(t) ==
  \A i \in 1..Len(t), j \in 1..Len(t) :
     i < j =>
       /\ t[i] # t[j]
       /\ t[j].dir = <<>> => t[i].dir = <<>>
       /\ t[i].dir = t[j].dir => \A k \in i..j : t[k].dir = t[i].dir

\* the trees, as the walk meets their files
TreeShapes ==
  {t \in UNION {[1..n -> Placements] : n \in 0..MaxFiles} : IsTraversal(t)}

\* the files of a tree: those at the positions in unreadable cannot be read
\* or decoded, and every content has n characters
TreeOf(shape, unreadable, n) ==
  [k \in 1..Len(shape) |->
     [dir |-> shape[k].dir, name |-> shape[k].name,
      readable |-> k \notin unreadable, content |-> TextOfLength(n)]]

\* Path(repo_path).parts for an output directory ./repositories and for an
\* output directory ../repos
PlainRepoPath == <<"repositories", "repo">>

RepoPaths == {PlainRepoPath, <<"..", "repos", "repo">>}

\* the repository of a run of the whole pipeline
SampleTree ==
  TreeOf(<<Placed(<<>>, <<"main", ".py">>), Placed(<<>>, <<"app", ".json">>),
           Placed(<<>>, <<"README">>)>>, {}, DefaultLength)

\* the sequences of source files detect_main_technology may be given
DetectPaths ==
  {<<"main", ".py">>, <<"util", ".js">>, <<"app", ".jsx">>, <<"x", ".ts">>,
   <<".py">>, <<"notes", ".txt">>}

SourceSequences ==
  UNION {[1..n -> {[path |-> p, content |-> TextOfLength(DefaultLength)] : p \in DetectPaths}] :
           n \in 0..MaxSources}

\* the directory of a file of docs/ below the repository root
DocsDir(f) == IF f = IndexFile THEN <<"docs">> ELSE <<"docs", f>>

\* the files docs/ holds, as files of the tree
RECURSIVE DocsTree(_, _)
DocsTree(fs, order) ==
  IF order = <<>> THEN <<>>
  ELSE (IF fs[Head(order)] = NoFile THEN <<>>
        ELSE <<[dir |-> DocsDir(Head(order)), name |-> <<"README", ".md">>,
                readable |-> TRUE, content |-> AsRuns(fs[Head(order)])]>>)
         \o DocsTree(fs, Tail(order))

\* (variant of WalkOf: the walk does not meet the files of docs/)
WalkOfRepositoryOnly(t, fs) == t

\* what os.walk meets: the files of the repository, then those of docs/
WalkOf(t, fs) == t \o DocsTree(fs, WriteOrder)

\* self.output_dir / repo.name for the default output directory; the name of
\* a repository of the model does not start with a dot
OutputPath(r) == PlainRepoPath

\* ------------------------------------------------------------------------
\* State
\* ------------------------------------------------------------------------
VARIABLES
  \* create_documentation on one repository
  pc,             \* where create_documentation is
  dirs,           \* the directories under the repository's docs/
  files,          \* the files under the repository's docs/
  documentation,  \* the text generate_documentation returned
  genError,       \* str(e) of the error the text-generation call raised
  saveResult,     \* what save_documentation returned
  createResult,   \* what create_documentation returned
  repoPath,       \* Path(repo_path).parts
  tree,           \* the files of the repository outside docs/, as os.walk meets them
  repoAnalysis,   \* <<>>, or the one value analyze_repository returned
  prompt,         \* <<>>, or the prompt inside generate_documentation
  stages,         \* the calls create_documentation has made, in order
  \* detect_main_technology applied on its own
  detectInput,    \* the sequence of source files it is given
  detectResult,   \* what it returned
  \* process_organization
  orgPc,          \* where process_organization is
  orgName,        \* org_name, what extract_org_name returned
  useGhCli,       \* self.use_gh_cli
  via,            \* how the repositories were listed: "api", "cli", "manual"
  repositories,   \* the listing being iterated
  idx,            \* the index of the next repository of the listing
  current,        \* the repository being cloned and documented
  cloned,         \* the repositories whose target directory exists
  disk,           \* per repository, the dirs and files of its docs/
  log,            \* what the run did, in order
  orgResult       \* what process_organization returned

pvars == <<pc, dirs, files, documentation, genError, saveResult, createResult,
           repoPath, tree, repoAnalysis, prompt, stages>>

dvars == <<detectInput, detectResult>>

ovars == <<orgPc, orgName, useGhCli, via, repositories, idx, current, cloned, disk, log, orgResult>>

vars == <<pc, dirs, files, documentation, genError, saveResult, createResult,
          repoPath, tree, repoAnalysis, prompt, stages, detectInput, detectResult,
          orgPc, orgName, useGhCli, via, repositories, idx, current, cloned, disk, log,
          orgResult>>

\* Python values: the booleans are "True" and "False", and "None" is the value
\* of a result that has not been returned
None == "None"

\* the value of a text variable that has not been assigned
Unset == <<"(unset)">>

\* the directories create_documentation_structure makes, in order:
\* "docs" and docs/<subdir>
DirOrder == <<"docs">> \o SectionOrder

AllDirs == {DirOrder[i] : i \in 1..Len(DirOrder)}

\* a repository that has no docs/ yet, and one documented by an earlier run
FreshFiles == [f \in DocFiles |-> NoFile]

StaleFiles == [f \in DocFiles |-> <<"old", "nl">>]

FreshDocs == [dirs |-> {}, files |-> FreshFiles]

StaleDocs == [dirs |-> AllDirs, files |-> StaleFiles]

\* the files of docs/ after a complete run that got the full response
DocumentedFiles == [f \in DocFiles |-> ContentFor(FullResponse, f)]

\* create_documentation has not been called
PipelineIdle ==
  /\ pc = "idle"
  /\ dirs = {}
  /\ files = FreshFiles
  /\ documentation = Unset
  /\ genError = Unset
  /\ saveResult = None
  /\ createResult = None
  /\ repoPath = <<>>
  /\ tree = <<>>
  /\ repoAnalysis = <<>>
  /\ prompt = <<>>
  /\ stages = <<>>

\* detect_main_technology is not applied on its own
DetectIdle ==
  /\ detectInput = <<>>
  /\ detectResult = None

\* process_organization is not running
OrgIdle ==
  /\ orgPc = "idle"
  /\ orgName = None
  /\ useGhCli = FALSE
  /\ via = "none"
  /\ repositories = <<>>
  /\ idx = 0
  /\ current = EmptyName
  /\ cloned = {}
  /\ disk = [r \in RepoNames |-> FreshDocs]
  /\ log = <<>>
  /\ orgResult = None

\* create_documentation(repo_path) called on a cloned repository
InitPipeline ==
  /\ pc = "structure"
  /\ \/ dirs = {} /\ files = FreshFiles
     \/ dirs = AllDirs /\ files = StaleFiles
  /\ documentation = Unset
  /\ genError = Unset
  /\ saveResult = None
  /\ createResult = None
  /\ repoPath = PlainRepoPath
  /\ tree = SampleTree
  /\ repoAnalysis = <<>>
  /\ prompt = <<>>
  /\ stages = <<>>
  /\ DetectIdle
  /\ OrgIdle

\* analyze_repository(repo_path) called by create_documentation, after
\* create_documentation_structure; or detect_main_technology(source_files)
\* called. The trees: every shape, every shape with one unreadable file,
\* and every shape of fewer than MaxFiles files under the other repository
\* location and with contents of every length, all in a repository without
\* documentation; and every shape of fewer than MaxFiles files in a
\* repository that an earlier run has documented.
InitAnalysis ==
  /\ dirs = AllDirs
  /\ documentation = Unset
  /\ genError = Unset
  /\ saveResult = None
  /\ createResult = None
  /\ repoAnalysis = <<>>
  /\ prompt = <<>>
  /\ detectResult = None
  /\ OrgIdle
  /\ \/ /\ pc = "analyze"
        /\ stages = <<"structure">>
        /\ detectInput = <<>>
        /\ \E shape \in TreeShapes :
             \/ /\ repoPath \in RepoPaths
                /\ repoPath # PlainRepoPath => Len(shape) < MaxFiles
                /\ files = FreshFiles
                /\ tree = TreeOf(shape, {}, DefaultLength)
             \/ /\ repoPath = PlainRepoPath
                /\ files = FreshFiles
                /\ \E k \in 1..Len(shape) : tree = TreeOf(shape, {k}, DefaultLength)
             \/ /\ repoPath = PlainRepoPath
                /\ files = FreshFiles
                /\ Len(shape) < MaxFiles
                /\ \E n \in ContentLengths : tree = TreeOf(shape, {}, n)
             \/ /\ repoPath = PlainRepoPath
                /\ files = DocumentedFiles
                /\ Len(shape) < MaxFiles
                /\ tree = TreeOf(shape, {}, DefaultLength)
     \/ /\ pc = "detect"
        /\ stages = <<>>
        /\ repoPath = <<>>
        /\ tree = <<>>
        /\ files = FreshFiles
        /\ detectInput \in SourceSequences

\* process_organization(github_org_url) called; the output directory may hold
\* repositories cloned and documented by an earlier run
InitOrg ==
  /\ PipelineIdle
  /\ DetectIdle
  /\ orgPc = "start"
  /\ orgName = None
  /\ useGhCli \in BOOLEAN
  /\ via = "none"
  /\ repositories = <<>>
  /\ idx = 0
  /\ current = EmptyName
  /\ cloned \in SUBSET RepoNames
  /\ disk = [r \in RepoNames |-> IF r \in cloned THEN StaleDocs ELSE FreshDocs]
  /\ log = <<>>
  /\ orgResult = None

\* the inputs explored at the current call of create_documentation
ResponseChoices == IF orgPc = "idle" THEN Responses ELSE OrgResponses

ErrorChoices == IF orgPc = "idle" THEN ErrorDescriptions ELSE OrgErrorDescriptions

WriteFaultChoices == IF orgPc = "idle" THEN 0..Len(WriteOrder) ELSE OrgWriteFaults

\* ------------------------------------------------------------------------
\* create_documentation (documenter.py 54-71), one action per call it makes
\* ------------------------------------------------------------------------
\* create_documentation_structure (documentation.py 9-25): os.makedirs with
\* exist_ok=True for docs and its five sub-directories.  The fault-th makedirs
\* may raise OSError; nothing in create_documentation catches it.
CreateDocumentationStructure ==
  /\ pc = "structure"
  /\ \E fault \in 0..Len(DirOrder) :
       /\ dirs' = dirs \cup {DirOrder[i] : i \in 1..(IF fault = 0 THEN Len(DirOrder) ELSE fault - 1)}
       /\ pc' = IF fault = 0 THEN "analyze" ELSE "raised"
  /\ stages' = Append(stages, "structure")
  /\ UNCHANGED <<files, documentation, genError, saveResult, createResult>>
  /\ UNCHANGED <<repoPath, tree, repoAnalysis, prompt>>
  /\ UNCHANGED dvars
  /\ UNCHANGED ovars

\* analyze_repository (documentation.py 27-104), called at documenter.py 63:
\* the walk meets the files of the repository and the files docs/ holds
AnalyzeRepository ==
  /\ pc = "analyze"
  /\ repoAnalysis' = <<Analysis(repoPath, WalkOf(tree, files))>>
  /\ stages' = Append(stages, "sample")
  /\ pc' = "prompt"
  /\ UNCHANGED <<dirs, files, documentation, genError, saveResult, createResult>>
  /\ UNCHANGED <<repoPath, tree, prompt>>
  /\ UNCHANGED dvars
  /\ UNCHANGED ovars

\* create_documentation_prompt, the first call generate_documentation makes
\* (claude.py 12); repo_name is os.path.basename(repo_path)
CreateDocumentationPrompt ==
  /\ pc = "prompt"
  /\ prompt' = Prompt(repoPath[Len(repoPath)], repoAnalysis[1])
  /\ stages' = Append(stages, "prompt")
  /\ pc' = "generate"
  /\ UNCHANGED <<dirs, files, documentation, genError, saveResult, createResult>>
  /\ UNCHANGED <<repoPath, tree, repoAnalysis>>
  /\ UNCHANGED dvars
  /\ UNCHANGED ovars

\* generate_documentation, the call returns: response.content[0].text.  The
\* prompt is a local of generate_documentation and is gone when it returns.
GenerateReturns ==
  /\ pc = "generate"
  /\ \E text \in ResponseChoices : documentation' = text
  /\ stages' = Append(stages, "generate")
  /\ pc' = "save"
  /\ UNCHANGED <<dirs, files, genError, saveResult, createResult>>
  /\ prompt' = <<>>
  /\ UNCHANGED <<repoPath, tree, repoAnalysis>>
  /\ UNCHANGED dvars
  /\ UNCHANGED ovars

\* (variant of GenerateFails: after an error the call is made once more)
GenerateFailsAndRetries ==
  /\ pc = "generate"
  /\ \E e \in ErrorChoices :
       /\ genError' = e
       /\ documentation' = FailureDocument(e)
  /\ stages' = Append(stages, "generate")
  /\ pc' = IF genError = Unset THEN "generate" ELSE "save"
  /\ UNCHANGED <<dirs, files, saveResult, createResult>>
  /\ prompt' = <<>>
  /\ UNCHANGED <<repoPath, tree, repoAnalysis>>
  /\ UNCHANGED dvars
  /\ UNCHANGED ovars

\* generate_documentation, the call (or reading its response) raises e
GenerateFails ==
  /\ pc = "generate"
  /\ \E e \in ErrorChoices :
       /\ genError' = e
       /\ documentation' = FailureDocument(e)
  /\ stages' = Append(stages, "generate")
  /\ pc' = "save"
  /\ UNCHANGED <<dirs, files, saveResult, createResult>>
  /\ prompt' = <<>>
  /\ UNCHANGED <<repoPath, tree, repoAnalysis>>
  /\ UNCHANGED dvars
  /\ UNCHANGED ovars

\* (variant of SaveDocumentation: the sections are written although no
\* text was generated)
SaveDocumentationUngenerated ==
  /\ pc \in {"generate", "save"}
  /\ \E fault \in WriteFaultChoices :
       /\ files' = FilesAfterSave(files, IF documentation = Unset THEN <<>> ELSE documentation, fault)
       /\ saveResult' = SaveReturns(fault)
  /\ createResult' = "True"
  /\ stages' = Append(stages, "write")
  /\ pc' = "done"
  /\ UNCHANGED <<dirs, documentation, genError>>
  /\ UNCHANGED <<repoPath, tree, repoAnalysis, prompt>>
  /\ UNCHANGED dvars
  /\ UNCHANGED ovars

\* save_documentation (documentation.py 134-211) and the return of
\* create_documentation, which ignores its result (documenter.py 69-71)
SaveDocumentation ==
  /\ pc = "save"
  /\ \E fault \in WriteFaultChoices :
       /\ files' = FilesAfterSave(files, documentation, fault)
       /\ saveResult' = SaveReturns(fault)
  /\ createResult' = "True"
  /\ stages' = Append(stages, "write")
  /\ pc' = "done"
  /\ UNCHANGED <<dirs, documentation, genError>>
  /\ UNCHANGED <<repoPath, tree, repoAnalysis, prompt>>
  /\ UNCHANGED dvars
  /\ UNCHANGED ovars

Next ==
  \/ CreateDocumentationStructure
  \/ AnalyzeRepository
  \/ CreateDocumentationPrompt
  \/ GenerateReturns
  \/ GenerateFails
  \/ SaveDocumentation

Spec == InitPipeline /\ [][Next]_vars

\* ------------------------------------------------------------------------
\* The analysis and the prompt on their own, over every tree of the bounds
\* ------------------------------------------------------------------------
\* detect_main_technology(source_files)
ApplyDetectMainTechnology ==
  /\ pc = "detect"
  /\ detectResult' = DetectMainTechnology(detectInput)
  /\ pc' = "detected"
  /\ UNCHANGED <<dirs, files, documentation, genError, saveResult, createResult>>
  /\ UNCHANGED <<repoPath, tree, repoAnalysis, prompt, stages, detectInput>>
  /\ UNCHANGED ovars

NextAnalysis ==
  \/ AnalyzeRepository
  \/ CreateDocumentationPrompt
  \/ ApplyDetectMainTechnology

SpecAnalysis == InitAnalysis /\ [][NextAnalysis]_vars

\* ------------------------------------------------------------------------
\* process_organization (documenter.py 186-310)
\* ------------------------------------------------------------------------
\* extract_org_name (github.py 18-31) on the split path: the name, or raised
\* for the ValueError of line 31
ExtractOrgName(path_parts) ==
  IF Len(path_parts) >= 2 /\ path_parts[1] = "orgs"
    THEN [raised |-> FALSE, name |-> path_parts[2]]
  ELSE IF Len(path_parts) >= 1
    THEN [raised |-> FALSE, name |-> path_parts[1]]
  ELSE [raised |-> TRUE, name |-> ""]

\* clone_repository (github.py 77-131): exists is os.path.exists(target_dir),
\* returncode the exit status of the pull, sync or clone, raised an exception
\* of subprocess.run
CloneRepository(exists, returncode, raised) ==
  IF raised THEN "False"
  ELSE IF exists THEN "True"
  ELSE IF returncode # 0 THEN "False"
  ELSE "True"

\* RepoDocumenter.clone_repository_cli (documenter.py 73-101)
CloneRepositoryCli(exists, returncode, raised) ==
  IF raised THEN "False"
  ELSE IF returncode # 0 THEN "False"
  ELSE "True"

\* the clone routine a loop calls: clone_repository in the API loop (line 224)
\* and at the manual prompt without the CLI (line 181), clone_repository_cli
\* in the CLI loop (line 284) and at the manual prompt with it (line 160)
CloneWith(exists, returncode, raised) ==
  IF via = "cli" \/ (via = "manual" /\ useGhCli)
    THEN CloneRepositoryCli(exists, returncode, raised)
    ELSE CloneRepository(exists, returncode, raised)

\* create_documentation is left: its locals are gone
LeavePipeline ==
  /\ pc' = "idle"
  /\ dirs' = {}
  /\ files' = FreshFiles
  /\ documentation' = Unset
  /\ genError' = Unset
  /\ saveResult' = None
  /\ createResult' = None
  /\ repoPath' = <<>>
  /\ tree' = <<>>
  /\ repoAnalysis' = <<>>
  /\ prompt' = <<>>
  /\ stages' = <<>>

\* the events of the log
Offer(r) == <<"offer", r>>

Clone(r, result) == <<"clone", r, result>>

Document(r) == <<"document", r>>

Sleep == <<"sleep">>

\* time.sleep(1) at the end of an iteration of the API and CLI loops; the
\* loop of manual_repository_input has none
SleepOf(listing) == IF listing = "manual" THEN <<>> ELSE <<Sleep>>

\* lines 188-197 and 235: extract_org_name and get_repositories, which returns
\* the listing or raises GithubException
ListRepositories ==
  /\ orgPc = "start"
  /\ \E path_parts \in OrgUrlPaths :
       LET org == ExtractOrgName(path_parts)
       IN  IF org.raised
             THEN /\ orgPc' = "done"
                  /\ orgResult' = "False"
                  /\ UNCHANGED <<orgName, via, repositories, idx>>
             ELSE /\ orgName' = org.name
                  /\ \/ /\ org.name \in KnownOrgs
                        /\ \E l \in Listings : repositories' = l
                        /\ via' = "api"
                        /\ idx' = 1
                        /\ orgPc' = "loop"
                        /\ UNCHANGED orgResult
                     \/ /\ orgPc' = "fallback"
                        /\ UNCHANGED <<via, repositories, idx, orgResult>>
  /\ UNCHANGED <<useGhCli, current, cloned, disk, log>>
  /\ UNCHANGED pvars
  /\ UNCHANGED dvars

\* lines 235-303, the handler of GithubException: gh repo list when the CLI
\* is there, else the manual prompt.  json.loads of the output of gh either
\* gives the list the loop of line 254 expects or raises, which ends the run
\* at line 308.
FallbackListing ==
  /\ orgPc = "fallback"
  /\ \/ /\ useGhCli
        /\ \E l \in Listings :
             /\ repositories' = l
             /\ via' = "cli"
             /\ idx' = 1
             /\ orgPc' = "loop"
             /\ UNCHANGED orgResult
     \/ /\ useGhCli
        /\ orgPc' = "done"
        /\ orgResult' = "False"
        /\ UNCHANGED <<via, repositories, idx>>
     \/ /\ \E input \in ManualInputs : repositories' = input
        /\ via' = "manual"
        /\ idx' = 1
        /\ orgPc' = "loop"
        /\ UNCHANGED orgResult
  /\ UNCHANGED <<orgName, useGhCli, current, cloned, disk, log>>
  /\ UNCHANGED pvars
  /\ UNCHANGED dvars

\* One iteration of the loop over the listing, up to the call of
\* create_documentation: lines 200-230 (API), 254-290 (CLI), 114-184 (manual).
\* The repository is shown, the user answers y or n, the repository is
\* cloned or refreshed, and on success create_documentation is entered.
OfferRepository ==
  /\ orgPc = "loop"
  /\ idx <= Len(repositories)
  /\ LET r == repositories[idx]
     IN  IF r = EmptyName
           THEN /\ idx' = idx + 1
                /\ UNCHANGED <<orgPc, current, cloned, log>>
                /\ UNCHANGED pvars
           ELSE \E response \in {"y", "n"} :
                  IF response = "n"
                    THEN /\ idx' = idx + 1
                         /\ log' = log \o <<Offer(r)>>
                         /\ UNCHANGED <<orgPc, current, cloned>>
                         /\ UNCHANGED pvars
                    ELSE \E returncode \in {0, 1}, raised \in BOOLEAN :
                           LET exists == r \in cloned
                               result == CloneWith(exists, returncode, raised)
                           IN  /\ cloned' = IF ~exists /\ returncode = 0 /\ ~raised
                                              THEN cloned \cup {r} ELSE cloned
                               /\ IF result = "True"
                                    THEN /\ orgPc' = "doc"
                                         /\ current' = r
                                         /\ log' = log \o <<Offer(r), Clone(r, result)>>
                                         /\ pc' = "structure"
                                         /\ dirs' = disk[r].dirs
                                         /\ files' = disk[r].files
                                         /\ repoPath' = OutputPath(r)
                                         /\ tree' = SampleTree
                                         /\ UNCHANGED <<idx, documentation, genError,
                                                        saveResult, createResult,
                                                        repoAnalysis, prompt, stages>>
                                    ELSE /\ idx' = idx + 1
                                         /\ log' = log \o <<Offer(r), Clone(r, result)>>
                                                       \o SleepOf(via)
                                         /\ UNCHANGED <<orgPc, current>>
                                         /\ UNCHANGED pvars
  /\ UNCHANGED <<orgName, useGhCli, via, repositories, disk, orgResult>>
  /\ UNCHANGED dvars

\* (variant of ReturnFromDocumentation: the loop does not move on to the next
\* entry of the listing)
ReturnFromDocumentationWithoutAdvance ==
  /\ orgPc = "doc"
  /\ pc = "done"
  /\ disk' = [disk EXCEPT ![current] = [dirs |-> dirs, files |-> files]]
  /\ log' = log \o <<Document(current)>> \o SleepOf(via)
  /\ idx' = idx
  /\ orgPc' = "loop"
  /\ current' = EmptyName
  /\ LeavePipeline
  /\ UNCHANGED <<orgName, useGhCli, via, repositories, cloned, orgResult>>
  /\ UNCHANGED dvars

\* create_documentation returned: the rest of the iteration (lines 228-233,
\* 288-293, 163 and 184)
ReturnFromDocumentation ==
  /\ orgPc = "doc"
  /\ pc = "done"
  /\ disk' = [disk EXCEPT ![current] = [dirs |-> dirs, files |-> files]]
  /\ log' = log \o <<Document(current)>> \o SleepOf(via)
  /\ idx' = idx + 1
  /\ orgPc' = "loop"
  /\ current' = EmptyName
  /\ LeavePipeline
  /\ UNCHANGED <<orgName, useGhCli, via, repositories, cloned, orgResult>>
  /\ UNCHANGED dvars

\* create_documentation raised: the exception is no GithubException, it
\* leaves the loop and is caught at line 308, where the run returns False
DocumentationRaises ==
  /\ orgPc = "doc"
  /\ pc = "raised"
  /\ disk' = [disk EXCEPT ![current] = [dirs |-> dirs, files |-> files]]
  /\ orgPc' = "done"
  /\ orgResult' = "False"
  /\ current' = EmptyName
  /\ LeavePipeline
  /\ UNCHANGED <<orgName, useGhCli, via, repositories, idx, cloned, log>>
  /\ UNCHANGED dvars

\* the listing is exhausted: lines 305-306
FinishOrganization ==
  /\ orgPc = "loop"
  /\ idx > Len(repositories)
  /\ orgPc' = "done"
  /\ orgResult' = "True"
  /\ UNCHANGED <<orgName, useGhCli, via, repositories, idx, current, cloned, disk, log>>
  /\ UNCHANGED pvars
  /\ UNCHANGED dvars

NextOrg ==
  \/ ListRepositories
  \/ FallbackListing
  \/ OfferRepository
  \/ CreateDocumentationStructure
  \/ AnalyzeRepository
  \/ CreateDocumentationPrompt
  \/ GenerateReturns
  \/ GenerateFails
  \/ SaveDocumentation
  \/ ReturnFromDocumentation
  \/ DocumentationRaises
  \/ FinishOrganization

SpecOrg == InitOrg /\ [][NextOrg]_vars

\* ========================================================================
\* Properties
\* ========================================================================
\* the pipeline has run to its end and save_documentation returned True
Saved == pc = "done" /\ saveResult = "True"

\* the index of section s in the fixed order
OrderOf(s) == CHOOSE i \in 1..Len(SectionOrder) : SectionOrder[i] = s

LaterSections(s) == {j \in SectionKeys : OrderOf(j) > OrderOf(s)}

AllTitles == {Title[s] : s \in SectionKeys}

\* the positions at which a heading with the title of s starts (its first #)
HeadingStarts(text, s) ==
  {p \in 1..Len(text) :
     /\ HeadingAt(text, p, {Title[s]}) # 0
     /\ (p = 1 \/ text[p - 1] # "#")}

\* the body the extracted text of section s is said to be: from just after
\* the (first) heading of s to the first following heading of a later
\* section, or to the end of the text
BodyToLaterHeading(text, s) ==
  LET p    == CHOOSE q \in HeadingStarts(text, s) : \A r \in HeadingStarts(text, s) : q <= r
      from == HeadingAt(text, p, {Title[s]})
      ends == {q \in from..Len(text) :
                 HeadingAt(text, q, {Title[j] : j \in LaterSections(s)}) # 0}
      to   == IF ends = {} THEN Len(text) + 1
              ELSE CHOOSE q \in ends : \A r \in ends : q <= r
  IN  SubSeq(text, from, to - 1)

\* some required element of s occurs in text, whatever its letter case
HasRequiredElement(text, s) ==
  \E i \in 1..Len(RequiredElements[s]), k \in 1..Len(text) :
     SubstrOf(LowerOf(RequiredElements[s][i]), LowerOf(text[k]))

\* sub is a contiguous part of text
Occurs(sub, text) ==
  \E o \in 0..(Len(text) - Len(sub)) : SubSeq(text, o + 1, o + Len(sub)) = sub

\* C1: for every response text and every matched section, the extracted body
\* (group 1 of the match) is the whole text between the section's heading and
\* the next heading of a later section, or the end of the text.  The two are
\* compared as save_documentation uses the body, without the white space
\* around it.
C1_BodyRunsToLaterHeading ==
  documentation # Unset =>
    \A s \in SectionKeys :
       SearchSection(documentation, s).ok =>
         Strip(SearchSection(documentation, s).group1)
           = Strip(BodyToLaterHeading(documentation, s))

\* the five headings occur once each and in the fixed order, and the text
\* between each heading and the next one holds a required element
FiveInOrderWithKeywords(text) ==
  /\ \A s \in SectionKeys : Cardinality(HeadingStarts(text, s)) = 1
  /\ \A s \in SectionKeys : \A j \in LaterSections(s) :
        \A p \in HeadingStarts(text, s), q \in HeadingStarts(text, j) : p < q
  /\ \A s \in SectionKeys : HasRequiredElement(BodyToLaterHeading(text, s), s)

\* C2: a response with the five headings in order, each section holding one
\* of its required elements somewhere before the next heading, gives five
\* extracted (non-placeholder) section files, and the file of a section does
\* not contain the heading line of the next section.
C2_FiveSectionsExtracted ==
  (Saved /\ FiveInOrderWithKeywords(documentation)) =>
    \A s \in SectionKeys :
       /\ files[s] # Placeholder(s)
       /\ \A j \in LaterSections(s) :
             OrderOf(j) = OrderOf(s) + 1 => ~Occurs(<<"#", "sp", Title[j]>>, files[s])

\* the two forms of an extracted section file: the stripped body, with the
\* title line in front of it unless it starts with a level-1 heading
IsExtractedFrom(content, body, s) ==
  LET stripped == Strip(body)
  IN  IF Len(stripped) >= 2 /\ stripped[1] = "#" /\ stripped[2] = "sp"
        THEN content = stripped
        ELSE content = <<"#", "sp", Title[s], "nl", "nl">> \o stripped

\* a placeholder file: it names the title and lists every required element
IsPlaceholderOf(content, s) ==
  /\ content = Placeholder(s)
  /\ Occurs(<<"#", "sp", Title[s], "nl">>, content)
  /\ \A i \in 1..Len(RequiredElements[s]) :
        Occurs(<<"-", "sp", RequiredElements[s][i]>>, content)

\* C3: a section file holds extracted content iff the section's heading is
\* matched and the extracted body holds a required element (letter case
\* ignored); otherwise it is the placeholder, which names the title and lists
\* every required element.
C3_ExtractedIffMatchedAndKeyword ==
  Saved =>
    \A s \in SectionKeys :
       LET body == SearchSection(documentation, s).group1
       IN  IF HeadingStarts(documentation, s) # {} /\ HasRequiredElement(body, s)
             THEN IsExtractedFrom(files[s], body, s) /\ files[s] # Placeholder(s)
             ELSE IsPlaceholderOf(files[s], s)

C3_Witness ==
  /\ Saved
  /\ \E s \in SectionKeys : HeadingStarts(documentation, s) = {} /\ IsPlaceholderOf(files[s], s)
  /\ \E s \in SectionKeys :
        /\ HeadingStarts(documentation, s) # {}
        /\ ~HasRequiredElement(SearchSection(documentation, s).group1, s)
        /\ IsPlaceholderOf(files[s], s)
  /\ IsExtractedFrom(files["getting-started"],
                     SearchSection(documentation, "getting-started").group1, "getting-started")
  /\ Occurs(<<"INSTALLATION">>, files["getting-started"])

\* exactly the heading of s is absent: the other four occur once each
MissingExactly(text, s) ==
  /\ HeadingStarts(text, s) = {}
  /\ \A j \in SectionKeys \ {s} : Cardinality(HeadingStarts(text, j)) = 1

\* the text with a section of s put in at its place in the fixed order:
\* before the first heading of a later section, or at the end
InsertSection(text, s, block) ==
  LET later == {q \in 1..Len(text) :
                  HeadingAt(text, q, {Title[j] : j \in LaterSections(s)}) # 0}
      at    == IF later = {} THEN Len(text) + 1
               ELSE CHOOSE q \in later : \A r \in later : q <= r
  IN  SubSeq(text, 1, at - 1) \o block \o SubSeq(text, at, Len(text))

\* a heading of s with a body
SectionBlocks(s) ==
  {Heading(style, s) \o b :
     style \in HeadingStyles,
     b \in {<<>>, <<KeywordIn[s], "nl">>, <<"x", "nl", KeywordIn[s], "nl">>}}

\* C4: when exactly one heading is absent from the response, that section's
\* file is the placeholder and every other section's file is what it would be
\* if the missing section (heading and body) were present.
C4_MissingSectionIsLocal ==
  Saved =>
    \A s \in SectionKeys :
       MissingExactly(documentation, s) =>
         /\ IsPlaceholderOf(files[s], s)
         /\ \A block \in SectionBlocks(s) :
               LET inserted == InsertSection(documentation, s, block)
               IN  \A j \in SectionKeys \ {s} : SectionContent(inserted, j) = files[j]

C4_Witness ==
  /\ Saved
  /\ MissingExactly(documentation, "flows")
  /\ IsPlaceholderOf(files["flows"], "flows")
  /\ files["data-models"] # Placeholder("data-models")
  /\ files["architecture"] # Placeholder("architecture")

\* C5: when the text-generation call raises, generate_documentation returns
\* (the pipeline goes on to the writing stage) a non-empty text that starts
\* with the level-1 heading Documentation Generation Failed and ends with the
\* description of the error.
C5_FailureDocumentReturned ==
  genError # Unset =>
    /\ pc \in {"save", "done"}
    /\ documentation # <<>>
    /\ SubSeq(documentation, 1, 3) = <<"#", "sp", "Documentation Generation Failed">>
    /\ Occurs(genError, documentation)
    /\ SubSeq(documentation, Len(documentation) - Len(genError) + 1, Len(documentation))
         = genError

C5_Witness ==
  /\ genError # Unset
  /\ genError # <<>>
  /\ pc = "save"
  /\ Occurs(genError, documentation)

\* C6: the failure document of any error description, given to
\* save_documentation, yields five placeholder files.
C6_FailureDocumentGivesPlaceholders ==
  (Saved /\ genError # Unset) => \A s \in SectionKeys : files[s] = Placeholder(s)

\* C8: save_documentation never raises (the only raise of the pipeline comes
\* before generation); it returns a boolean, and True only when the index and
\* the five section files have all been written.
C8_SaveNeverRaises ==
  /\ pc = "raised" => (documentation = Unset /\ saveResult = None)
  /\ pc = "done" =>
       /\ saveResult \in {"True", "False"}
       /\ saveResult = "True" => \A f \in DocFiles : files[f] = ContentFor(documentation, f)

C8_Witness ==
  /\ pc = "done"
  /\ saveResult = "False"
  /\ files[IndexFile] = MainReadme
  /\ files["getting-started"] = ContentFor(documentation, "getting-started")
  /\ files["getting-started"] # Placeholder("getting-started")
  /\ files["faqs"] = <<"old", "nl">>

\* C9: when save_documentation returns False, create_documentation returns a
\* false result.
C9_SaveFailureReported ==
  (pc = "done" /\ saveResult = "False") => createResult = "False"

\* the index, written out
ExpectedIndex ==
  <<"#", "sp", "Documentation", "nl", "nl",
    "-", "sp", "[", "Getting Started Guide", "]", "(", "getting-started", "/README.md", ")", "nl",
    "-", "sp", "[", "Data Models Documentation", "]", "(", "data-models", "/README.md", ")", "nl",
    "-", "sp", "[", "Flow Charts", "]", "(", "flows", "/README.md", ")", "nl",
    "-", "sp", "[", "Architecture Overview", "]", "(", "architecture", "/README.md", ")", "nl",
    "-", "sp", "[", "FAQs", "]", "(", "faqs", "/README.md", ")", "nl">>

\* C10: a save_documentation call without I/O error leaves the same index
\* docs/README.md for every response, with exactly one link per section,
\* whether the section was extracted or placeholder-filled.
C10_IndexAlwaysLinksFiveSections ==
  Saved =>
    /\ files[IndexFile] = ExpectedIndex
    /\ \A s \in SectionKeys :
          Cardinality({k \in 1..(Len(files[IndexFile]) - 1) :
                         files[IndexFile][k] = s /\ files[IndexFile][k + 1] = "/README.md"}) = 1

C10_Witness ==
  /\ Saved
  /\ files[IndexFile] = ExpectedIndex
  /\ files["faqs"] = Placeholder("faqs")
  /\ files["architecture"] # Placeholder("architecture")

\* C7: an error raised while one repository is processed does not keep the
\* remaining repositories of the run from being offered: when
\* process_organization has returned, every repository of the listing has
\* been offered for processing.
C7_LaterRepositoriesStillOffered ==
  orgPc = "done" =>
    \A i \in 1..Len(repositories) :
       repositories[i] # EmptyName =>
         \E k \in 1..Len(log) : log[k] = Offer(repositories[i])

\* the calls of the text-generation service made by the current
\* create_documentation
GenerationCalls == Cardinality({k \in 1..Len(stages) : stages[k] = "generate"})

\* C11: one create_documentation invokes the text-generation service at most
\* once, exactly once when it has got past the generation stage, and not
\* again after a call that failed (no retry).
C11_GenerationInvokedOnce ==
  /\ GenerationCalls <= 1
  /\ pc \in {"save", "done"} => GenerationCalls = 1
  /\ genError # Unset => (GenerationCalls = 1 /\ pc \in {"save", "done"})

C11_Witness ==
  /\ pc = "done"
  /\ genError # Unset
  /\ GenerationCalls = 1
  /\ stages[Len(stages)] = "write"

\* the stages of create_documentation in the order stated
StageOrder == <<"structure", "sample", "prompt", "generate", "write">>

IsPrefix(a, b) == Len(a) <= Len(b) /\ SubSeq(b, 1, Len(a)) = a

\* the log has the event
Logged(event) == \E k \in 1..Len(log) : log[k] = event

\* documentation files of repository r have been written in this run
DocsWritten(r) == disk[r].files \notin {FreshFiles, StaleFiles}

\* C12: the stages of a repository run in the order clone, file sampling,
\* prompt building, generation, section writing; the pipeline runs only for
\* the repository whose clone has just reported success; and no
\* documentation file is written for a repository that was declined or whose
\* clone reported failure.
C12_StagesInOrderAfterClone ==
  /\ IsPrefix(stages, StageOrder)
  /\ pc # "idle" =>
       /\ orgPc = "doc"
       /\ Len(log) >= 2
       /\ log[Len(log) - 1] = Offer(current)
       /\ log[Len(log)] = Clone(current, "True")
  /\ \A r \in RepoNames : DocsWritten(r) => Logged(Clone(r, "True"))

C12_Witness ==
  /\ orgPc = "done"
  /\ \E r \in RepoNames, r2 \in RepoNames :
        /\ DocsWritten(r)
        /\ Logged(Document(r))
        /\ Logged(Clone(r2, "False"))
        /\ ~Logged(Clone(r2, "True"))
        /\ ~DocsWritten(r2)

\* ------------------------------------------------------------------------
\* Properties of the analysis (SpecAnalysis)
\* ------------------------------------------------------------------------
\* analyze_repository has returned
Analyzed == repoAnalysis # <<>>

\* the files the walk of the current analysis meets
Walked == WalkOf(tree, files)

\* the paths of a list of the analysis
PathsOf(list) == {list[i].path : i \in 1..Len(list)}

\* the last word of the name of f
LastWord(f) == f.name[Len(f.name)]

\* the file-name tests of the three categories, as stated
HasSourceExtension(f) ==
  LastWord(f) \in {".py", ".js", ".ts", ".java", ".go", ".rb", ".php", ".cs"}

HasConfigExtension(f) ==
  LastWord(f) \in {".json", ".yaml", ".yml", ".env", ".config", ".toml"}

HasReadmeName(f) == f.name \in {<<"README", ".md">>, <<"README">>, <<"readme", ".md">>}

\* the list a file belongs to by the stated precedence
ListByPrecedence(f) ==
  IF HasSourceExtension(f) THEN "source"
  ELSE IF HasConfigExtension(f) THEN "config"
  ELSE IF HasReadmeName(f) THEN "readme"
  ELSE "none"

\* a file the walk reads: readable, and under no directory the walk skips
IsRead(f) == f.readable /\ ~IsHidden(repoPath, f.dir)

\* C13: no path is in two of source_files, config_files, readme_files (nor
\* twice in one), and every file that is read is in the list the precedence
\* source extension, configuration extension, README name gives it, and in
\* no other.
C13_OneCategoryByPrecedence ==
  Analyzed =>
    LET a       == repoAnalysis[1]
        walked  == Walked
        sources == PathsOf(a.source_files)
        configs == PathsOf(a.config_files)
        readmes == PathsOf(a.readme_files)
    IN  /\ sources \cap configs = {}
        /\ sources \cap readmes = {}
        /\ configs \cap readmes = {}
        /\ Cardinality(PathsOf(a.files)) = Len(a.files)
        /\ \A k \in 1..Len(walked) :
              LET f == walked[k]
              IN  IsRead(f) =>
                    /\ RelPath(f) \in sources <=> ListByPrecedence(f) = "source"
                    /\ RelPath(f) \in configs <=> ListByPrecedence(f) = "config"
                    /\ RelPath(f) \in readmes <=> ListByPrecedence(f) = "readme"

C13_Witness ==
  /\ Analyzed
  /\ Len(repoAnalysis[1].source_files) = 1
  /\ Len(repoAnalysis[1].config_files) = 1
  /\ Len(repoAnalysis[1].readme_files) = 1
  /\ Len(tree) = 3

\* C14: main_readme is the README-classified file whose path is exactly
\* README.md when there is one, otherwise the first README-classified file of
\* the walk, otherwise the value whose content is No README found.
C14_MainReadmeSelection ==
  Analyzed =>
    LET a       == repoAnalysis[1]
        readmes == a.readme_files
    IN  IF <<"README", ".md">> \in PathsOf(readmes)
          THEN /\ a.main_readme.path = <<"README", ".md">>
               /\ \E i \in 1..Len(readmes) : readmes[i] = a.main_readme
        ELSE IF readmes # <<>>
          THEN a.main_readme = readmes[1]
        ELSE a.main_readme.content = <<[c |-> "No README found", n |-> 1]>>

C14_Witness ==
  /\ Analyzed
  /\ Len(repoAnalysis[1].readme_files) >= 2
  /\ repoAnalysis[1].readme_files[1].path # <<"README", ".md">>
  /\ repoAnalysis[1].main_readme.path = <<"README", ".md">>

\* the words of the model that contain test, and docs, whatever the case
TestWords == {"Tests"}

DocsWords == {"docs", "olddocs"}

HasWordOf(path, words) == \E k \in 1..Len(path) : path[k] \in words

\* the files of the walk that are read and belong to a list
ReadOf(category) ==
  LET walked == Walked
  IN  {walked[k] : k \in {i \in 1..Len(walked) :
                             IsRead(walked[i]) /\ ListByPrecedence(walked[i]) = category}}

\* C15: has_docker iff the path of some configuration file ends with
\* Dockerfile; has_tests iff the path of some source file contains test, and
\* has_docs iff the path of some README file contains docs, in any letter
\* case.
C15_StructureFlags ==
  Analyzed =>
    LET ps == repoAnalysis[1].project_structure
    IN  /\ ps.has_docker <=> \E f \in ReadOf("config") : LastWord(f) = "Dockerfile"
        /\ ps.has_tests <=> \E f \in ReadOf("source") : HasWordOf(RelPath(f), TestWords)
        /\ ps.has_docs <=> \E f \in ReadOf("readme") : HasWordOf(RelPath(f), DocsWords)

C15_Witness ==
  /\ Analyzed
  /\ repoAnalysis[1].project_structure.has_tests
  /\ repoAnalysis[1].project_structure.has_docs
  /\ ~repoAnalysis[1].project_structure.has_docker
  /\ \E k \in 1..Len(tree) : tree[k].readable /\ tree[k].name = <<"Dockerfile">>

\* some directory of f below the repository root starts with a dot
UnderDotDirectory(f) == \E k \in 1..Len(f.dir) : StartsWithDot(f.dir[k])

\* C16: a file is skipped as hidden iff a directory segment of its path
\* below the repository root starts with a dot: every readable file of a
\* category is sampled iff it is under no such directory, wherever the
\* repository root is.
C16_HiddenIffDotSegmentBelowRoot ==
  Analyzed =>
    LET walked  == Walked
        sampled == PathsOf(repoAnalysis[1].files)
    IN  \A k \in 1..Len(walked) :
           LET f == walked[k]
           IN  (f.readable /\ ListByPrecedence(f) # "none") =>
                 (RelPath(f) \in sampled <=> ~UnderDotDirectory(f))

\* the size above which a file's content is said not to be used, and the
\* marker put in its place
SizeCeiling == 1000000

TooLargeMarker == <<[c |-> "File too large to analyze", n |-> 1]>>

\* C17: a file of more than 1,000,000 bytes does not contribute its content:
\* it is either not among the sampled files or its entry holds the marker.
C17_LargeFileContentUnused ==
  Analyzed =>
    LET walked  == Walked
        sampled == repoAnalysis[1].files
    IN  \A k \in 1..Len(walked) :
           LenOf(walked[k].content) > SizeCeiling =>
             \A i \in 1..Len(sampled) :
                sampled[i].path = RelPath(walked[k]) => sampled[i].content = TooLargeMarker

\* the files of a walk that can be read
RECURSIVE ReadableOnly(_)
ReadableOnly(t) ==
  IF t = <<>> THEN <<>>
  ELSE (IF Head(t).readable THEN <<Head(t)>> ELSE <<>>) \o ReadableOnly(Tail(t))

\* C18: a file that cannot be read or decoded does not abort the analysis:
\* analyze_repository returns (the only raise of the pipeline comes before
\* it), its result is the one of the tree without the unreadable files, and
\* every other file that is read and has a category is sampled.
C18_UnreadableFileSkipped ==
  /\ pc = "raised" => stages = <<"structure">>
  /\ pc \in {"prompt", "generate", "save", "done"} => Analyzed
  /\ Analyzed =>
       LET walked  == Walked
           sampled == PathsOf(repoAnalysis[1].files)
       IN  /\ repoAnalysis[1] = Analysis(repoPath, ReadableOnly(walked))
           /\ \A k \in 1..Len(walked) :
                 (IsRead(walked[k]) /\ ListByPrecedence(walked[k]) # "none") =>
                   RelPath(walked[k]) \in sampled
           /\ \A k \in 1..Len(walked) :
                 ~walked[k].readable => RelPath(walked[k]) \notin sampled

C18_Witness ==
  /\ Analyzed
  /\ Len(tree) >= 2
  /\ ~tree[1].readable
  /\ ListByPrecedence(tree[1]) # "none"
  /\ RelPath(tree[2]) \in PathsOf(repoAnalysis[1].files)

\* detect_main_technology has returned
Detected == pc = "detected"

\* the technologies, and the positions of the files of a technology in the
\* input
Technologies ==
  {"Python", "JavaScript", "TypeScript", "Java", "Go", "Ruby", "PHP", "C#"}

FilesOfTech(t) ==
  {k \in 1..Len(detectInput) : TechOf(Splitext(detectInput[k].path)) = t}

CountOfTech(t) == Cardinality(FilesOfTech(t))

FirstOfTech(t) == CHOOSE k \in FilesOfTech(t) : \A j \in FilesOfTech(t) : k <= j

\* C19: detect_main_technology returns the technology with the most source
\* files, among equals the one whose first file comes first in the input;
\* Unknown for the empty input (and when no file has a mapped extension);
\* files with an unmapped extension are not counted.
C19_MainTechnologyIsFirstMaximum ==
  Detected =>
    /\ detectInput = <<>> => detectResult = "Unknown"
    /\ IF \A t \in Technologies : CountOfTech(t) = 0
         THEN detectResult = "Unknown"
         ELSE /\ detectResult \in Technologies
              /\ \A t \in Technologies : CountOfTech(t) <= CountOfTech(detectResult)
              /\ \A t \in Technologies \ {detectResult} :
                    CountOfTech(t) = CountOfTech(detectResult) =>
                      FirstOfTech(detectResult) < FirstOfTech(t)

C19_Witness ==
  /\ Detected
  /\ detectResult \in Technologies
  /\ \E t \in Technologies \ {detectResult} : CountOfTech(t) = CountOfTech(detectResult)
  /\ \E k \in 1..Len(detectInput) : TechOf(Splitext(detectInput[k].path)) = ""
  /\ Len(detectInput) = MaxSources

\* the prompt has been built
Prompted == prompt # <<>>

\* the positions of the prompt where the block of the file at path starts:
\* its heading line and the opening fence
BlockStarts(path) ==
  LET opening == <<[c |-> "###", n |-> 1]>> \o [k \in 1..Len(path) |-> [c |-> path[k], n |-> 1]]
                   \o <<[c |-> "nl", n |-> 1], [c |-> "Fence", n |-> 1], [c |-> "nl", n |-> 1]>>
  IN  {p \in 1..(Len(prompt) - Len(opening) + 1) :
         SubSeq(prompt, p, p + Len(opening) - 1) = opening}

\* what the prompt embeds for the block that starts at p: the text between
\* the opening fence and the line of the closing fence
EmbeddedAt(path, p) ==
  LET from == p + Len(path) + 4
      ends == {q \in from..(Len(prompt) - 1) :
                 prompt[q] = [c |-> "nl", n |-> 1] /\ prompt[q + 1] = [c |-> "Fence", n |-> 1]}
      to   == CHOOSE q \in ends : \A r \in ends : q <= r
  IN  SubSeq(prompt, from, to - 1)

\* the first limit characters of a content of n characters, then the marker
\* iff n is greater than limit
FirstThenEllipsis(n, limit) ==
  TextOfLength(IF n < limit THEN n ELSE limit)
    \o (IF n > limit THEN <<[c |-> ".", n |-> 3]>> ELSE <<>>)

ExploredLengths == ContentLengths \cup {DefaultLength}

EmbedsExcerpt(entry, limit) ==
  /\ Cardinality(BlockStarts(entry.path)) = 1
  /\ \E n \in ExploredLengths :
        /\ entry.content = TextOfLength(n)
        /\ \A p \in BlockStarts(entry.path) :
              EmbeddedAt(entry.path, p) = FirstThenEllipsis(n, limit)

\* C20: the prompt embeds, for every interest source file, exactly its first
\* 3,000 characters and, for every configuration file, exactly its first
\* 1,500 characters, followed by ... iff the content is longer than that.
C20_ExcerptsTruncatedExactly ==
  Prompted =>
    LET a == repoAnalysis[1]
    IN  /\ \A i \in 1..Len(a.source_files) :
              IsInterest(a.source_files[i].path) =>
                EmbedsExcerpt(a.source_files[i], 3000)
        /\ \A i \in 1..Len(a.config_files) : EmbedsExcerpt(a.config_files[i], 1500)

C20_Witness ==
  /\ Prompted
  /\ \E i \in 1..Len(repoAnalysis[1].source_files) :
        LET e == repoAnalysis[1].source_files[i]
        IN  /\ IsInterest(e.path)
            /\ e.content = TextOfLength(3000)
            /\ \A p \in BlockStarts(e.path) : EmbeddedAt(e.path, p) = TextOfLength(3000)
  /\ \E i \in 1..Len(repoAnalysis[1].config_files) :
        LET e == repoAnalysis[1].config_files[i]
        IN  \A p \in BlockStarts(e.path) :
               EmbeddedAt(e.path, p) = TextOfLength(1500) \o <<[c |-> ".", n |-> 3]>>

\* the words of the model whose lower-cased spelling contains an interest
\* keyword
InterestWords == {"main", "app", "Models"}

\* the prompt as a sequence of characters would be too long to write down;
\* a run stands for its characters
Word(w) == [c |-> w, n |-> 1]

\* the position of the one occurrence of a fixed line of the prompt
PositionOf(w) == CHOOSE p \in 1..Len(prompt) : prompt[p] = Word(w)

\* the part of the prompt between two of its fixed lines
Between(from, to) == SubSeq(prompt, PositionOf(from) + 1, PositionOf(to) - 1)

\* the list items of a part of the prompt: the paths written after "- "
ListedIn(part, path) ==
  \E p \in 1..Len(part) :
     /\ part[p] = Word("-")
     /\ p + Len(path) <= Len(part)
     /\ \A k \in 1..Len(path) : part[p + k] = Word(path[k])
     /\ (p + Len(path) = Len(part) \/ part[p + Len(path) + 1] = Word("nl"))

\* the block of path starts inside the part of the prompt from..to
BlockIn(path, from, to) ==
  \E p \in BlockStarts(path) : PositionOf(from) < p /\ p < PositionOf(to)

\* C21: a source file has a block under Key Source Files Content iff its
\* path holds an interest keyword in any letter case; every configuration file
\* has a block under Configuration Files; every source and configuration path
\* is an item of its list under Repository Structure; and the whole content of
\* the main README stands under Current README Content.
C21_PromptEmbedsInterestAndConfig ==
  Prompted =>
    LET a == repoAnalysis[1]
    IN  /\ \A i \in 1..Len(a.source_files) :
              LET e == a.source_files[i]
              IN  /\ BlockIn(e.path, "## Key Source Files Content", "## Configuration Files")
                       <=> HasWordOf(e.path, InterestWords)
                  /\ ListedIn(Between("### Source Files:", "### Config Files:"), e.path)
        /\ \A i \in 1..Len(a.config_files) :
              LET e == a.config_files[i]
              IN  /\ BlockIn(e.path, "## Configuration Files",
                             "## Required Documentation Sections")
                  /\ ListedIn(Between("### Config Files:", "## Key Source Files Content"),
                              e.path)
        /\ Between("## Current README Content", "### Source Files:")
             = <<Word("nl")>> \o a.main_readme.content \o <<Word("nl")>>
        /\ LenOf(Between("## Current README Content", "### Source Files:"))
             = LenOf(a.main_readme.content) + 2

C21_Witness ==
  /\ Prompted
  /\ \E i \in 1..Len(repoAnalysis[1].source_files) :
        /\ repoAnalysis[1].source_files[i].path = <<"Models", "/", "util", ".js">>
        /\ BlockStarts(repoAnalysis[1].source_files[i].path) # {}
  /\ \E i \in 1..Len(tree) :
        /\ tree[i].name = <<"README", ".md">>
        /\ tree[i].dir = <<>>
        /\ LenOf(tree[i].content) = 1000001
        /\ repoAnalysis[1].main_readme.content = tree[i].content

\* ------------------------------------------------------------------------
\* Properties of a run over an organization (SpecOrg)
\* ------------------------------------------------------------------------
\* C22: an organization URL from which no name can be taken (an empty path)
\* ends the run before any repository is processed: process_organization has
\* returned False and nothing was listed, offered, cloned or documented.
C22_InvalidOrganizationIsFatal ==
  orgName = "" =>
    /\ orgPc = "done"
    /\ orgResult = "False"
    /\ via = "none"
    /\ log = <<>>

\* the positions of the log where a repository is cloned or refreshed
CloneEvents == {k \in 1..Len(log) : log[k][1] = "clone"}

\* C23: between the processing of two repositories of one run there is a
\* pause, however the repositories were listed.
C23_PauseBetweenRepositories ==
  \A i \in CloneEvents, j \in CloneEvents :
     i < j => \E k \in i..j : log[k] = Sleep

\* the docs/ of a repository as a complete run with the response text leaves it
DocumentedWith(docs, text) ==
  /\ docs.dirs = AllDirs
  /\ docs.files[IndexFile] = MainReadme
  /\ \A f \in DocFiles : docs.files[f] = ContentFor(text, f)

\* C24: re-running create_documentation on an already-documented repository
\* with the same response leaves docs/ as it was: the same six directories
\* (create_documentation_structure adds none), the same six files, and every
\* file with the content the first run gave it.
C24_RerunLeavesDocsUnchanged ==
  (orgPc = "doc" /\ disk[current].dirs = AllDirs) =>
    /\ dirs = AllDirs
    /\ (documentation # Unset /\ DocumentedWith(disk[current], documentation)) =>
         /\ pc = "save" => files = disk[current].files
         /\ Saved => /\ files = disk[current].files
                     /\ \A f \in DocFiles : files[f] # NoFile

\* a repository documented earlier in this run is documented again with the
\* same response
C24_Witness ==
  /\ orgPc = "doc"
  /\ Saved
  /\ documentation = FullResponse
  /\ DocumentedWith(disk[current], documentation)
  /\ \E k \in 1..Len(log) : log[k] = Document(current)

\* ------------------------------------------------------------------------
\* Properties of the heading match (Spec)
\* ------------------------------------------------------------------------
\* the position after the blanks that start at p
RECURSIVE SkipBlanks(_, _)
SkipBlanks(text, p) ==
  IF p <= Len(text) /\ text[p] = "sp" THEN SkipBlanks(text, p + 1) ELSE p

\* a heading line for section s starts at p: p is the start of a line, the
\* line is one or more '#', blanks, the title, blanks, and then the line ends
\* with a line break or with the text
HeadingLineAt(text, p, s) ==
  /\ p = 1 \/ text[p - 1] = "nl"
  /\ text[p] = "#"
  /\ LET t == SkipBlanks(text, SkipHashes(text, p))
     IN  /\ t <= Len(text)
         /\ text[t] = Title[s]
         /\ LET e == SkipBlanks(text, t + 1)
            IN  e = Len(text) + 1 \/ text[e] = "nl"

\* C25: a section is matched exactly when the text has a heading line for it:
\* '#'s at the start of a line, then the title as spelled and nothing else,
\* whether or not a line break follows the heading.
C25_MatchedIffHeadingLine ==
  documentation # Unset =>
    \A s \in SectionKeys :
       SearchSection(documentation, s).ok
         <=> \E p \in 1..Len(documentation) : HeadingLineAt(documentation, p, s)

\* ------------------------------------------------------------------------
\* Properties of the clone routines and of the loop (SpecOrg)
\* ------------------------------------------------------------------------
\* C26: a clone or refresh of a repository whose target directory already
\* exists reports success with either clone routine, also when the pull or
\* sync returns a non-zero status.
C26_CloneOfExistingPathSucceeds ==
  (orgPc = "loop" /\ idx <= Len(repositories) /\ repositories[idx] \in cloned) =>
    \A returncode \in {0, 1} : CloneWith(TRUE, returncode, FALSE) = "True"

\* how often the log has an event of this kind for repository r
Count(kind, r) ==
  Cardinality({k \in 1..Len(log) : log[k][1] = kind /\ log[k][2] = r})

\* how often r is named by the entries of the listing the loop has reached
TimesListed(r) ==
  Cardinality({k \in 1..Len(repositories) : k <= idx /\ repositories[k] = r})

\* C27 (as amended): every entry of the listing is offered, cloned and
\* documented at most once; with the API and the CLI listing, which name a
\* repository once, every repository is processed at most once; and the
\* fallback listing is made before any repository has been processed.
C27_EachEntryProcessedAtMostOnce ==
  /\ orgPc = "fallback" => log = <<>>
  /\ \A r \in RepoNames :
       /\ Count("offer", r) <= TimesListed(r)
       /\ Count("clone", r) <= Count("offer", r)
       /\ Count("document", r) <= Count("clone", r)
       /\ via \in {"api", "cli"} => Count("offer", r) <= 1

\* after the fallback to the CLI listing two repositories were documented,
\* each once
C27_Witness ==
  /\ orgPc = "done"
  /\ via = "cli"
  /\ Len(repositories) = 2
  /\ \A k \in 1..2 : Count("document", repositories[k]) = 1

\* C27 (as stated): every repository is offered, cloned and documented at
\* most once in one run.
C27_EachRepositoryProcessedAtMostOnce ==
  \A r \in RepoNames :
     /\ Count("offer", r) <= 1
     /\ Count("clone", r) <= 1
     /\ Count("document", r) <= 1

\* ------------------------------------------------------------------------
\* Properties of the analysis and the prompt, continued (SpecAnalysis)
\* ------------------------------------------------------------------------
\* C28: has_docker is False for every tree, also one with a Dockerfile, and
\* the prompt reads Has Docker: No.
C28_HasDockerAlwaysFalse ==
  /\ Analyzed => ~repoAnalysis[1].project_structure.has_docker
  /\ Prompted => prompt[PositionOf("Has Docker:") + 1] = Word("No")

\* a repository with a readable Dockerfile at its root was analyzed
C28_Witness ==
  /\ Prompted
  /\ ~IsHidden(repoPath, <<>>)
  /\ \E i \in 1..Len(tree) :
        /\ tree[i].name = <<"Dockerfile">>
        /\ tree[i].dir = <<>>
        /\ tree[i].readable
  /\ prompt[PositionOf("Has Docker:") + 1] = Word("No")

\* a readable file with a dot-prefixed name in a directory the walk enters
DotFilesRead ==
  {k \in 1..Len(tree) : StartsWithDot(tree[k].name[1]) /\ IsRead(tree[k])}

\* C30: a readable dot-prefixed file in a non-hidden directory is sampled
\* like any other file; a .env at the root is a configuration file and the
\* prompt handed to the text-generation service embeds its first 1,500
\* characters.
C30_DotFileSampledAndEmbedded ==
  \A k \in DotFilesRead :
     /\ Analyzed =>
          LET a == repoAnalysis[1]
          IN  /\ ListByPrecedence(tree[k]) = "source"
                   => RelPath(tree[k]) \in PathsOf(a.source_files)
              /\ ListByPrecedence(tree[k]) = "config"
                   => RelPath(tree[k]) \in PathsOf(a.config_files)
              /\ (tree[k].name = <<".env">> /\ tree[k].dir = <<>>)
                   => \E i \in 1..Len(a.config_files) : a.config_files[i] = Entry(tree[k])
     /\ (Prompted /\ pc = "generate" /\ tree[k].name = <<".env">> /\ tree[k].dir = <<>>)
          => EmbedsExcerpt(Entry(tree[k]), 1500)

\* a .env of 1,501 characters at the root: the prompt holds its first 1,500
\* characters and the marker
C30_Witness ==
  /\ Prompted
  /\ pc = "generate"
  /\ \E k \in DotFilesRead :
        /\ tree[k].name = <<".env">>
        /\ tree[k].dir = <<>>
        /\ LenOf(tree[k].content) = 1501
        /\ \A p \in BlockStarts(<<".env">>) :
              EmbeddedAt(<<".env">>, p) = TextOfLength(1500) \o <<[c |-> ".", n |-> 3]>>
        /\ BlockStarts(<<".env">>) # {}

\* the file of docs/ as the walk meets it
DocsFile(f) ==
  [dir |-> DocsDir(f), name |-> <<"README", ".md">>, readable |-> TRUE,
   content |-> AsRuns(files[f])]

====
